---- MODULE Spec2Model ----
(***************************************************************************)
(* Ballcone: the syslog ingest handler, the per-service staging queues,    *)
(* the periodic persister and the batch insert of the DAO.                 *)
(*                                                                         *)
(* One action is one handler of the single-threaded event loop, taken as   *)
(* a whole: datagram_received, one turn of persist_timer, and the steps of *)
(* the shutdown path of main.  The read side -- the encoding of an entry,  *)
(* the queries of the DAO, handle_command and the handlers of the Web      *)
(* interface -- is one action per call, each under a specification of its  *)
(* own.                                                                    *)
(***************************************************************************)
EXTENDS Integers, Sequences, FiniteSets, TLC

VARIABLES
    queue,      \* Ballcone.queue: service -> deque of entries
    qorder,     \* the keys of Ballcone.queue in insertion (= iteration) order
    tables,     \* the database: table name -> committed rows, in insertion order
    arrived,    \* number of entries appended so far (the next entry's arrival number)
    timer,      \* the persist_timer task: "sleeping", "failed", "cancelled"
    phase,      \* position of main: "running", then the steps of its finally block
    log,        \* what the last handler logged, returned or raised
    inbox,      \* the datagram the transport read last, and how far its handling is
    reply,      \* the last call of a query, a command or a Web handler, and its result
    flush       \* the persist() calls in progress: how far each has iterated the queues

vars == <<queue, qorder, tables, arrived, timer, phase, log, inbox, reply, flush>>

\* Bounds of the model.
MaxDatagrams == 2
MaxServiceLen == 3
MaxRows == 3
MaxLimit == 2
MaxParameterLen == 2

(***************************************************************************)
(* Text.  A string is a sequence of characters; one character stands for   *)
(* each class the service handling tells apart.                            *)
(***************************************************************************)
LowerChars == {"a"}
UpperChars == {"A"}
SpaceChars == {" "}
OtherChars == {"-"}
WordChars == LowerChars \cup UpperChars
Chars == WordChars \cup SpaceChars \cup OtherChars

Strings(n) == UNION {[1..k -> Chars] : k \in 0..n}

lower_char(c) == IF c = "A" THEN "a" ELSE c

\* Faulty variant of lower: the case is kept.
lower_identity(s) == s

\* str.lower()
lower(s) == [i \in 1..Len(s) |-> lower_char(s[i])]

RECURSIVE lstrip(_)
lstrip(s) == IF s # <<>> /\ Head(s) \in SpaceChars THEN lstrip(Tail(s)) ELSE s

RECURSIVE rstrip(_)
rstrip(s) ==
    IF s # <<>> /\ s[Len(s)] \in SpaceChars THEN rstrip(SubSeq(s, 1, Len(s) - 1)) ELSE s

\* Faulty variant of strip: whitespace is removed everywhere.
strip_all(s) == SelectSeq(s, LAMBDA c : c \notin SpaceChars)

\* str.strip()
strip(s) == rstrip(lstrip(s))

\* VALID_SERVICE = re.compile(r'\A[\w]+\Z'), as VALID_SERVICE.match(s) is not None
VALID_SERVICE(s) == Len(s) > 0 /\ \A i \in 1..Len(s) : s[i] \in WordChars

(***************************************************************************)
(* The database, as the DAO sees it.                                       *)
(***************************************************************************)
table_exists(table) == table \in DOMAIN tables

\* Faulty variant of check_service: every name passes.
check_service_any(service, should_exist) == TRUE

\* Ballcone.check_service
check_service(service, should_exist) ==
    VALID_SERVICE(service) /\ (~should_exist \/ table_exists(service))

(***************************************************************************)
(* Datagrams.  wire: what decoding, the syslog pattern and the JSON parser *)
(* make of the bytes.  skind/service: the payload's service value.  host:  *)
(* the payload's host value.  rest: whether every other field the handler  *)
(* converts is present and converts.                                       *)
(***************************************************************************)
WireKinds == {"bad_utf8", "no_frame", "bad_json", "json"}
ServiceKinds == {"absent", "falsy", "number", "str"}
HostValues == {"missing", "null", "str"}
RestValues == {"ok", "bad"}

Datagram(w, k, s, h, r) == [wire |-> w, skind |-> k, service |-> s, host |-> h, rest |-> r]

NoDatagram == Datagram("none", "absent", <<>>, "missing", "bad")

\* at: "none" (nothing read), "received" (read, handler not yet run), "handled".
Inbox(at, d) == [at |-> at, d |-> d]

NoInbox == Inbox("none", NoDatagram)

\* Service values of the payloads the full system is run on.
ServiceSamples ==
    { <<>>, <<"a">>, <<"A", " ">>, <<"a", "a">>, <<"a", " ", "a">>, <<"-">> }

Datagrams ==
    { Datagram(w, "absent", <<>>, "missing", "bad") : w \in WireKinds \ {"json"} }
    \cup { Datagram("json", k, <<>>, h, r) :
             k \in ServiceKinds \ {"str"}, h \in {"str"}, r \in {"ok"} }
    \cup { Datagram("json", "str", s, h, r) :
             s \in ServiceSamples, h \in HostValues, r \in RestValues }

\* Every service string up to MaxServiceLen, in an otherwise well-formed payload.
WideDatagrams ==
    { Datagram(w, "absent", <<>>, "missing", "bad") : w \in WireKinds \ {"json"} }
    \cup { Datagram("json", k, <<>>, "str", "ok") : k \in ServiceKinds \ {"str"} }
    \cup { Datagram("json", "str", s, "str", "ok") : s \in Strings(MaxServiceLen) }

DbErrors == {"none", "table_exists", "create_table"}

Log(op, out, counts) == [op |-> op, out |-> out, counts |-> counts]

\* A call and what it returned or raised; NoReply while none is being answered.
Reply(op, args, result) == [op |-> op, args |-> args, result |-> result]
NoReply == Reply("none", <<>>, <<>>)

\* A persist() call: the position i of the service its loop is at (0 when the
\* call is not in progress) and the counts returned so far.  One for the call
\* of persist_timer and one for the call of main's finally block.
Frame(i, counts) == [i |-> i, counts |-> counts]
NoFlush == [timer |-> Frame(0, <<>>), final |-> Frame(0, <<>>)]

(***************************************************************************)
(* SyslogProtocol.datagram_received                                        *)
(***************************************************************************)
Handled(q, o, t, n, out) ==
    [queue |-> q, qorder |-> o, tables |-> t, arrived |-> n, out |-> out]

Dropped(out) == Handled(queue, qorder, tables, arrived, out)

\* Faulty variant of append: the entry goes to the head.
appendleft(entries, entry) == <<entry>> \o entries

\* deque.append
append(entries, entry) == Append(entries, entry)

\* Faulty variant of ensure_queue: the queue is made before the table.
ensure_queue_first(service, dberr) ==
    IF service \in DOMAIN queue
    THEN Dropped("ok")
    ELSE LET q == (service :> <<>>) @@ queue
             o == Append(qorder, service)
         IN  IF dberr = "table_exists" THEN Handled(q, o, tables, arrived, "database_error")
             ELSE IF ~table_exists(service)
             THEN IF dberr = "create_table"
                  THEN Handled(q, o, tables, arrived, "database_error")
                  ELSE Handled(q, o, (service :> <<>>) @@ tables, arrived, "ok")
             ELSE Handled(q, o, tables, arrived, "ok")

\* Lines 61-65: the table, then the queue.
ensure_queue(service, dberr) ==
    IF service \in DOMAIN queue
    THEN Dropped("ok")
    ELSE IF dberr = "table_exists"
    THEN Dropped("database_error")
    ELSE IF ~table_exists(service)
    THEN IF dberr = "create_table"
         THEN Dropped("database_error")
         ELSE Handled((service :> <<>>) @@ queue, Append(qorder, service),
                      (service :> <<>>) @@ tables, arrived, "ok")
    ELSE Handled((service :> <<>>) @@ queue, Append(qorder, service), tables, arrived, "ok")

\* Faulty variant of build_and_append: the fields are read before the table and
\* the queue are made, so that a field error leaves neither.
build_or_drop(service, d, e) ==
    IF e.out # "ok"
    THEN e
    ELSE IF d.rest = "bad" \/ d.host = "missing"
    THEN Dropped("field_error")
    ELSE LET entry == [seq |-> arrived + 1, host |-> d.host]
         IN  Handled([e.queue EXCEPT ![service] = append(e.queue[service], entry)],
                     e.qorder, e.tables, arrived + 1, "appended")

\* Lines 67-91: the entry is built from the payload and appended.
build_and_append(service, d, e) ==
    IF e.out # "ok"
    THEN e
    ELSE IF d.rest = "bad" \/ d.host = "missing"
    THEN [e EXCEPT !.out = "field_error"]
    ELSE LET entry == [seq |-> arrived + 1, host |-> d.host]
         IN  Handled([e.queue EXCEPT ![service] = append(e.queue[service], entry)],
                     e.qorder, e.tables, arrived + 1, "appended")

datagram_received(d, dberr) ==
    IF d.wire = "bad_utf8" THEN Dropped("malformed_utf8")
    ELSE IF d.wire = "no_frame" THEN Dropped("missing_payload")
    ELSE IF d.wire = "bad_json" THEN Dropped("malformed_json")
    ELSE IF d.skind \in {"absent", "falsy"} \/ (d.skind = "str" /\ d.service = <<>>)
    THEN Dropped("missing_service")
    ELSE IF d.skind = "number"
    THEN Dropped("attribute_error")
    ELSE LET service == lower(strip(d.service))
         IN  IF ~check_service(service, FALSE)
             THEN Dropped("malformed_service")
             ELSE build_and_append(service, d, ensure_queue(service, dberr))

Ingest(d, dberr) ==
    LET r == datagram_received(d, dberr)
    IN  /\ queue' = r.queue
        /\ qorder' = r.qorder
        /\ tables' = r.tables
        /\ arrived' = r.arrived
        /\ log' = Log("datagram_received", r.out, <<>>)
        /\ UNCHANGED <<timer, phase, reply, flush>>

\* The event loop calls the handler with a datagram.
DatagramReceived(d, dberr) ==
    /\ phase = "running"
    /\ arrived < MaxDatagrams
    /\ inbox = NoInbox
    /\ Ingest(d, dberr)
    /\ UNCHANGED inbox

\* The same in steps: the transport reads the datagram, the handler runs on it,
\* the handler has returned and the datagram is dropped.
Arrive(d) ==
    /\ phase = "running"
    /\ arrived < MaxDatagrams
    /\ inbox = NoInbox
    /\ inbox' = Inbox("received", d)
    /\ UNCHANGED <<queue, qorder, tables, arrived, timer, phase, log, reply, flush>>

Deliver(dberr) ==
    /\ inbox.at = "received"
    /\ Ingest(inbox.d, dberr)
    /\ inbox' = Inbox("handled", inbox.d)

Release ==
    /\ inbox.at = "handled"
    /\ inbox' = NoInbox
    /\ UNCHANGED <<queue, qorder, tables, arrived, timer, phase, log, reply, flush>>

(***************************************************************************)
(* MonetDAO: cursor, transaction, insert_into, batch_insert_into_from_deque *)
(***************************************************************************)
\* Faulty variant of rollback: the rows executed so far stay in the table.
rollback_keeps(rows, pending) == rows \o pending

\* cursor(): on DatabaseError the cursor is rolled back and the error raised again;
\* rows executed inside the transaction are not part of the table.
rollback(rows, pending) == rows

\* Faulty variant of commit: the batch is written twice.
commit_twice(rows, pending) == rows \o pending \o pending

\* Faulty variant of commit: only the last row of the batch is kept.
commit_last(rows, pending) ==
    IF pending = <<>> THEN rows ELSE Append(rows, pending[Len(pending)])

\* transaction(): cursor.commit() after the body.
commit(rows, pending) == rows \o pending

\* insert_into with a cursor: the INSERT raises DatabaseError when the table is
\* missing, when a NOT NULL column (python_type_to_sql) gets NULL (as_value passes
\* None through for a non-nullable field), or when the database fails (failNow).
insert_fails(exists, entry, failNow) == ~exists \/ entry.host = "null" \/ failNow

Drained(entries, pending, count, raised) ==
    [entries |-> entries, pending |-> pending, count |-> count, raised |-> raised]

\* Faulty variant of drain: the entry is taken from the deque only after its
\* insert succeeded.
RECURSIVE drain_requeue(_, _, _, _, _)
drain_requeue(exists, entries, pending, count, failAt) ==
    IF entries = <<>>
    THEN Drained(entries, pending, count, FALSE)
    ELSE IF insert_fails(exists, Head(entries), failAt = count + 1)
    THEN Drained(entries, pending, count, TRUE)
    ELSE drain_requeue(exists, Tail(entries), Append(pending, Head(entries)), count + 1, failAt)

\* The loop of lines 259-262: popleft, insert_into, count += 1.
RECURSIVE drain(_, _, _, _, _)
drain(exists, entries, pending, count, failAt) ==
    IF entries = <<>>
    THEN Drained(entries, pending, count, FALSE)
    ELSE LET entry == Head(entries)
             rest == Tail(entries)
         IN  IF insert_fails(exists, entry, failAt = count + 1)
             THEN Drained(rest, pending, count, TRUE)
             ELSE drain(exists, rest, Append(pending, entry), count + 1, failAt)

Inserted(rows, entries, count, raised) ==
    [rows |-> rows, entries |-> entries, count |-> count, raised |-> raised]

\* failAt: the statement of the transaction at which the database fails, counted
\* from 1 (the n+1st statement of a batch of n is the commit); 0 for no failure.
batch_insert_into_from_deque(exists, rows, entries, failAt) ==
    IF entries = <<>>
    THEN Inserted(rows, entries, 0, FALSE)
    ELSE LET r == drain(exists, entries, <<>>, 0, failAt)
         IN  IF r.raised
             THEN Inserted(rollback(rows, r.pending), r.entries, r.count, TRUE)
             ELSE IF failAt = r.count + 1
             THEN Inserted(rollback(rows, r.pending), r.entries, r.count, TRUE)
             ELSE Inserted(commit(rows, r.pending), r.entries, r.count, FALSE)

(***************************************************************************)
(* Ballcone.persist and Ballcone.persist_timer                             *)
(***************************************************************************)
Persisted(q, t, counts, raised) ==
    [queue |-> q, tables |-> t, counts |-> counts, raised |-> raised]

\* Faulty variant of persist_from: after a flush that raised, the services behind
\* it are flushed all the same, and the error is raised at the end.
RECURSIVE persist_from_goes_on(_, _, _, _, _, _)
persist_from_goes_on(i, q, t, counts, failSvc, failAt) ==
    IF i > Len(qorder)
    THEN Persisted(q, t, counts, failSvc # 0 /\ Len(counts) < Len(qorder))
    ELSE LET service == qorder[i]
             exists == service \in DOMAIN t
             r == batch_insert_into_from_deque(
                      exists, IF exists THEN t[service] ELSE <<>>, q[service],
                      IF failSvc = i THEN failAt ELSE 0)
             q2 == [q EXCEPT ![service] = r.entries]
             t2 == IF exists THEN [t EXCEPT ![service] = r.rows] ELSE t
         IN  persist_from_goes_on(i + 1, q2, t2,
                 IF r.raised \/ Len(counts) < i - 1 THEN counts ELSE Append(counts, r.count),
                 failSvc, failAt)

\* for service, queue in self.queue.items(): from the i-th key on.  counts are
\* the values batch_insert_into_from_deque returned, in iteration order.
RECURSIVE persist_from(_, _, _, _, _, _)
persist_from(i, q, t, counts, failSvc, failAt) ==
    IF i > Len(qorder)
    THEN Persisted(q, t, counts, FALSE)
    ELSE LET service == qorder[i]
             exists == service \in DOMAIN t
             r == batch_insert_into_from_deque(
                      exists, IF exists THEN t[service] ELSE <<>>, q[service],
                      IF failSvc = i THEN failAt ELSE 0)
             q2 == [q EXCEPT ![service] = r.entries]
             t2 == IF exists THEN [t EXCEPT ![service] = r.rows] ELSE t
         IN  IF r.raised
             THEN Persisted(q2, t2, counts, TRUE)
             ELSE persist_from(i + 1, q2, t2, Append(counts, r.count), failSvc, failAt)

persist(failSvc, failAt) == persist_from(1, queue, tables, <<>>, failSvc, failAt)

PersistOut(r) == IF r.raised THEN "database_error" ELSE "ok"

\* The database failures a persist() can meet: in the flush of the failSvc-th
\* service (0: none), at the failAt-th statement of its transaction.
FailSvcs == 0..Len(qorder)
FailAts == 1..(MaxDatagrams + 1)

\* One turn of the loop of persist_timer: the sleep ends, persist() runs.  An
\* exception of persist() leaves the coroutine: the task is done.
timer_after(raised) == IF raised THEN "failed" ELSE "sleeping"

\* Faulty variant of PersistTimer: the timer wakes and sleeps again without
\* calling persist().
PersistTimerIdle(failSvc, failAt) ==
    /\ phase = "running"
    /\ timer = "sleeping"
    /\ log' = Log("persist_timer", "ok", <<>>)
    /\ UNCHANGED <<queue, qorder, tables, arrived, timer, phase, inbox, reply, flush>>

PersistTimer(failSvc, failAt) ==
    /\ phase = "running"
    /\ timer = "sleeping"
    /\ LET r == persist(failSvc, failAt)
       IN  /\ queue' = r.queue
           /\ tables' = r.tables
           /\ timer' = timer_after(r.raised)
           /\ log' = Log("persist_timer", PersistOut(r), r.counts)
    /\ UNCHANGED <<qorder, arrived, phase, inbox, reply, flush>>

(***************************************************************************)
(* main: the finally block                                                 *)
(***************************************************************************)
\* task.cancel() and run_until_complete(task) for every task not yet done.
CancelTasks ==
    /\ phase = "running"
    /\ phase' = "tasks_cancelled"
    /\ timer' = IF timer = "sleeping" THEN "cancelled" ELSE timer
    /\ log' = Log("cancel_tasks", "ok", <<>>)
    /\ UNCHANGED <<queue, qorder, tables, arrived, inbox, reply, flush>>

GeoipClose ==
    /\ phase = "tasks_cancelled"
    /\ phase' = "geoip_closed"
    /\ log' = Log("geoip_close", "ok", <<>>)
    /\ UNCHANGED <<queue, qorder, tables, arrived, timer, inbox, reply, flush>>

\* Faulty variant of FinalPersist: an exception of persist() ends main at once.
FinalPersistAborts(failSvc, failAt) ==
    /\ phase = "geoip_closed"
    /\ LET r == persist(failSvc, failAt)
       IN  /\ queue' = r.queue
           /\ tables' = r.tables
           /\ log' = Log("final_persist", PersistOut(r), r.counts)
           /\ phase' = IF r.raised THEN "aborted" ELSE "persisted"
    /\ UNCHANGED <<qorder, arrived, timer, inbox, reply, flush>>

\* try: ballcone.persist()
FinalPersist(failSvc, failAt) ==
    /\ phase = "geoip_closed"
    /\ LET r == persist(failSvc, failAt)
       IN  /\ queue' = r.queue
           /\ tables' = r.tables
           /\ log' = Log("final_persist", PersistOut(r), r.counts)
    /\ phase' = "persisted"
    /\ UNCHANGED <<qorder, arrived, timer, inbox, reply, flush>>

\* Faulty variant of ConnectionClose: the connection is closed without waiting
\* for the final persist.
ConnectionCloseEarly ==
    /\ phase = "geoip_closed"
    /\ phase' = "closed"
    /\ log' = Log("connection_close", log.out, <<>>)
    /\ UNCHANGED <<queue, qorder, tables, arrived, timer, inbox, reply, flush>>

\* finally: connection.close()
ConnectionClose ==
    /\ phase = "persisted"
    /\ phase' = "closed"
    /\ log' = Log("connection_close", log.out, <<>>)
    /\ UNCHANGED <<queue, qorder, tables, arrived, timer, inbox, reply, flush>>

(***************************************************************************)
(* Specifications                                                          *)
(***************************************************************************)
\* Ballcone.__init__ and the start of main.  The database outlives the process:
\* a table of an earlier run may exist.
Init ==
    /\ queue = <<>>
    /\ qorder = <<>>
    /\ tables \in {<<>>, (<<"a">> :> <<>>)}
    /\ arrived = 0
    /\ timer = "sleeping"
    /\ phase = "running"
    /\ log = Log("init", "ok", <<>>)
    /\ inbox = NoInbox
    /\ reply = NoReply
    /\ flush = NoFlush

Next ==
    \/ \E d \in Datagrams, dberr \in DbErrors : DatagramReceived(d, dberr)
    \/ \E failSvc \in FailSvcs, failAt \in FailAts : PersistTimer(failSvc, failAt)
    \/ CancelTasks
    \/ GeoipClose
    \/ \E failSvc \in FailSvcs, failAt \in FailAts : FinalPersist(failSvc, failAt)
    \/ ConnectionClose

Spec == Init /\ [][Next]_vars

\* asyncio.sleep(persist_period) returns once the period is over and the loop
\* resumes the coroutine: a timer that sleeps does not sleep for ever.
TimerFires == \E failSvc \in FailSvcs, failAt \in FailAts : PersistTimer(failSvc, failAt)

SpecLive == Spec /\ WF_vars(TimerFires)

\* The ingest path alone, over every service string up to MaxServiceLen.
NextIngest ==
    \/ \E d \in WideDatagrams : Arrive(d)
    \/ \E dberr \in DbErrors : Deliver(dberr)
    \/ Release

SpecIngest == Init /\ [][NextIngest]_vars

(***************************************************************************)
(* Entry: as_value, as_values, sql_value_to_python, from_values             *)
(***************************************************************************)
\* Python values by type.  A datetime is its UTC wall clock in whole seconds
\* since the epoch, its microsecond, and whether it carries a tzinfo.
PyNone == [type |-> "NoneType"]
PyStr(s) == [type |-> "str", v |-> s]
PyInt(n) == [type |-> "int", v |-> n]
PyBool(b) == [type |-> "bool", v |-> b]
PyDate(ordinal) == [type |-> "date", v |-> ordinal]
PyIp(s) == [type |-> "ip", v |-> s]
PyDatetime(secs, micro, aware) ==
    [type |-> "datetime", v |-> secs, microsecond |-> micro, aware |-> aware]

\* optional_types of an annotation: its first type and whether None is allowed.
Annotation(first, null) == [first |-> first, null |-> null]

\* Entry.__annotations__, for the fields carried here, in declaration order.
EntryFields == <<"datetime", "date", "host", "referer", "ip", "is_robot">>

EntryAnnotations ==
    [datetime |-> Annotation("datetime", FALSE),
     date     |-> Annotation("date", FALSE),
     host     |-> Annotation("str", FALSE),
     referer  |-> Annotation("str", TRUE),
     ip       |-> Annotation("ip", FALSE),
     is_robot |-> Annotation("bool", TRUE)]

is_empty(obj) ==
    IF obj.type = "str" THEN Len(obj.v) = 0 ELSE obj = PyNone

\* timegm(value.utctimetuple()) is the whole seconds of the UTC wall clock.
as_value(value, annotation) ==
    IF value.type = "datetime" THEN PyInt(value.v)
    ELSE IF value.type = "date" THEN PyInt(value.v)
    ELSE IF value.type = "ip" THEN PyStr(value.v)
    ELSE IF is_empty(value) /\ annotation.null THEN PyNone
    ELSE value

as_values(entry) ==
    [i \in 1..Len(EntryFields) |->
        as_value(entry[EntryFields[i]], EntryAnnotations[EntryFields[i]])]

\* datetime.utcfromtimestamp(value) has no tzinfo and no microsecond.
sql_value_to_python(annotation, value) ==
    IF annotation.first = "datetime" THEN PyDatetime(value.v, 0, FALSE)
    ELSE IF annotation.first = "date" THEN PyDate(value.v)
    ELSE IF annotation.first = "ip" THEN PyIp(value.v)
    ELSE IF is_empty(value) /\ annotation.null THEN PyNone
    ELSE [type |-> annotation.first, v |-> value.v]

from_values(values) ==
    [name \in {EntryFields[i] : i \in 1..Len(EntryFields)} |->
        LET i == CHOOSE j \in 1..Len(EntryFields) : EntryFields[j] = name
        IN  sql_value_to_python(EntryAnnotations[name], values[i])]

\* The entries datagram_received builds: the datetime is isoparse(...) moved to
\* UTC, so it carries a tzinfo; the date is the date of that datetime; host and
\* referrer are the payload's strings; is_robot is user_agent.get('bot', None).
Instants == {0, 1, 24 * 60 * 60}
Microseconds == {0, 1}
\* date(1970, 1, 1).toordinal()
EpochOrdinal == 719163

\* The proleptic ordinal of the calendar day that holds the wall-clock second.
DateOf(secs) == EpochOrdinal + secs \div (24 * 60 * 60)

IngestEntries ==
    { [datetime |-> PyDatetime(secs, micro, TRUE),
       date     |-> PyDate(DateOf(secs)),
       host     |-> PyStr(host),
       referer  |-> referer,
       ip       |-> PyIp("ip1"),
       is_robot |-> robot] :
        secs \in Instants, micro \in Microseconds, host \in {"", "h"},
        referer \in {PyNone, PyStr(""), PyStr("r")},
        robot \in {PyNone, PyBool(TRUE), PyBool(FALSE)} }

\* insert_into stores entry.as_values(); select decodes the row by from_values.
InsertAndSelect(entry) ==
    /\ reply = NoReply
    /\ reply' = Reply("select", entry, <<from_values(as_values(entry))>>)
    /\ UNCHANGED <<queue, qorder, tables, arrived, timer, phase, log, inbox, flush>>

\* The caller has taken the result.
Forget ==
    /\ reply # NoReply
    /\ reply' = NoReply
    /\ UNCHANGED <<queue, qorder, tables, arrived, timer, phase, log, inbox, flush>>

NextCodec ==
    \/ \E entry \in IngestEntries : InsertAndSelect(entry)
    \/ Forget

SpecCodec == Init /\ [][NextCodec]_vars

(***************************************************************************)
(* MonetDAO: apply_dates, select, select_average, select_count,            *)
(* select_count_group                                                      *)
(***************************************************************************)
\* An Optional argument: None, or the value.
None == <<>>
Some(x) == <<x>>

\* SQL NULL in a nullable TEXT column.
Null == "NULL"

\* A row of a service table, by the columns the queries below read: date (an
\* ordinal), ip, platform_name (nullable) and length.
Row(date, ip, name, length) ==
    [date |-> date, ip |-> ip, platform_name |-> name, length |-> length]

\* python_type_to_sql: the columns declared without NOT NULL.
NullableColumns == {"platform_name"}
is_null(row, column) == column \in NullableColumns /\ row[column] = Null

\* ORDER BY on a TEXT column, ascending: NULL first, then the names in order.
TextOrder == <<Null, "n1", "n2">>
text_rank(v) == CHOOSE i \in 1..Len(TextOrder) : TextOrder[i] = v

\* Faulty variant of where_dates: the upper end of the range is excluded.
where_dates_open(date, start, stop) ==
    IF start # None /\ stop # None
    THEN date >= start[1] /\ date < stop[1]
    ELSE IF start # None THEN date >= start[1]
    ELSE IF stop # None THEN date < stop[1]
    ELSE TRUE

\* The WHERE clause apply_dates adds; a date is never falsy, so "if start" is
\* "start is not None".  date[a:b] is BETWEEN a AND b.
where_dates(date, start, stop) ==
    IF start # None /\ stop # None
    THEN IF start = stop
         THEN date = start[1]
         ELSE date >= start[1] /\ date <= stop[1]
    ELSE IF start # None THEN date >= start[1]
    ELSE IF stop # None THEN date <= stop[1]
    ELSE TRUE

apply_dates(rows, start, stop) ==
    SelectSeq(rows, LAMBDA r : where_dates(r.date, start, stop))

\* select: SELECT * ... ORDER BY datetime (limit left at None).  Rows are stored
\* in the order of their datetime.
select(rows, start, stop) == apply_dates(rows, start, stop)

\* The values of a column in a group of rows, NULLs left out, by row position.
non_null(rows, column) == {i \in DOMAIN rows : ~is_null(rows[i], column)}

\* fn.Count(column), with .distinct() or without.
sql_count(rows, column, distinct) ==
    IF distinct
    THEN Cardinality({rows[i][column] : i \in non_null(rows, column)})
    ELSE Cardinality(non_null(rows, column))

\* fn.Sum(column) of a numeric column.
RECURSIVE sql_sum(_, _)
sql_sum(rows, column) ==
    IF rows = <<>> THEN 0 ELSE Head(rows)[column] + sql_sum(Tail(rows), column)

\* Faulty variant of sql_avg: the sum is divided by one more than the count.
sql_avg_off(rows, column) == sql_sum(rows, column) \div (Len(rows) + 1)

\* fn.Avg(column) of a NOT NULL numeric column; a group has at least one row.
sql_avg(rows, column) == sql_sum(rows, column) \div Len(rows)

Count(date, group, count) == [date |-> date, group |-> group, count |-> count]

CountResult(field, distinct, ascending, group, elements) ==
    [field |-> field, distinct |-> distinct, ascending |-> ascending,
     group |-> group, elements |-> elements]

Average(date, avg, sum, count) ==
    [date |-> date, avg |-> avg, sum |-> sum, count |-> count]

\* ORDER BY date, count [order], group: does a come before b?
precedes(a, b, ascending) ==
    \/ a.date < b.date
    \/ /\ a.date = b.date
       /\ \/ IF ascending THEN a.count < b.count ELSE a.count > b.count
          \/ a.count = b.count /\ text_rank(a.group) < text_rank(b.group)

RECURSIVE order_by(_, _)
order_by(S, ascending) ==
    IF S = {}
    THEN <<>>
    ELSE LET first == CHOOSE a \in S : \A b \in S \ {a} : precedes(a, b, ascending)
         IN  <<first>> \o order_by(S \ {first}, ascending)

\* GROUP BY date ... ORDER BY date: one row of the result per date.
RECURSIVE order_by_date(_)
order_by_date(S) ==
    IF S = {}
    THEN <<>>
    ELSE LET first == CHOOSE a \in S : \A b \in S \ {a} : a.date < b.date
         IN  <<first>> \o order_by_date(S \ {first})

group_by_date(rows, date) == SelectSeq(rows, LAMBDA r : r.date = date)

dates_of(rows) == {rows[i].date : i \in DOMAIN rows}

select_average(rows, field, start, stop) ==
    LET inrange == apply_dates(rows, start, stop)
        element(d) ==
            LET group == group_by_date(inrange, d)
                count == sql_count(group, field, FALSE)
            IN  Average(d, sql_avg(group, field),
                        IF count # 0 THEN sql_sum(group, field) ELSE 0, count)
    IN  order_by_date({element(d) : d \in dates_of(inrange)})

\* Faulty variant of select_count: the field is counted without DISTINCT.
select_count_all(rows, field, start, stop) ==
    LET inrange == apply_dates(rows, start, stop)
        column == IF field # None THEN field[1] ELSE "date"
        element(d) == Count(d, None, sql_count(group_by_date(inrange, d), column, FALSE))
    IN  CountResult(field, field # None, None, None,
                    order_by_date({element(d) : d \in dates_of(inrange)}))

select_count(rows, field, start, stop) ==
    LET inrange == apply_dates(rows, start, stop)
        column == IF field # None THEN field[1] ELSE "date"
        element(d) ==
            Count(d, None, sql_count(group_by_date(inrange, d), column, field # None))
    IN  CountResult(field, field # None, None, None,
                    order_by_date({element(d) : d \in dates_of(inrange)}))

\* Faulty variant of row_number: the rows are numbered over the whole result,
\* not within their date.
row_number_global(e, query, ascending) ==
    1 + Cardinality({o \in query : precedes(o, e, ascending)})

\* ROW_NUMBER() OVER (PARTITION BY date ORDER BY count [order], group).
row_number(e, query, ascending) ==
    1 + Cardinality({o \in query : o.date = e.date /\ precedes(o, e, ascending)})

\* Faulty variant of select_count_group: the limit is not applied.
select_count_group_unlimited(rows, field, group, distinct, start, stop, ascending, limit) ==
    LET inrange == apply_dates(rows, start, stop)
        column == IF field # None THEN field[1] ELSE "date"
        keys == {<<inrange[i].date, inrange[i][group]>> : i \in DOMAIN inrange}
        rows_of(k) == SelectSeq(inrange, LAMBDA r : r.date = k[1] /\ r[group] = k[2])
        query == {Count(k[1], k[2], sql_count(rows_of(k), column, distinct)) : k \in keys}
    IN  CountResult(field, distinct, Some(ascending), Some(group),
                    order_by(query, ascending))

select_count_group(rows, field, group, distinct, start, stop, ascending, limit) ==
    LET inrange == apply_dates(rows, start, stop)
        column == IF field # None THEN field[1] ELSE "date"
        keys == {<<inrange[i].date, inrange[i][group]>> : i \in DOMAIN inrange}
        rows_of(k) == SelectSeq(inrange, LAMBDA r : r.date = k[1] /\ r[group] = k[2])
        query == {Count(k[1], k[2], sql_count(rows_of(k), column, distinct)) : k \in keys}
        limited == IF limit # None
                   THEN {e \in query : row_number(e, query, ascending) <= limit[1]}
                   ELSE query
    IN  CountResult(field, distinct, Some(ascending), Some(group),
                    order_by(limited, ascending))

\* Faulty variant of visits: the dates of a day are counted with DISTINCT.
visits_distinct(rows, start, stop) ==
    LET r == select_count(rows, None, start, stop)
    IN  [r EXCEPT !.elements = [i \in DOMAIN r.elements |-> Count(r.elements[i].date, None, 1)]]

\* Ballcone.visits and Ballcone.unique.
visits(rows, start, stop) == select_count(rows, None, start, stop)

unique(rows, start, stop) == select_count(rows, Some("ip"), start, stop)

\* The arguments of a query; those a query does not take are None.
Args(field, group, distinct, start, stop, ascending, limit) ==
    [field |-> field, group |-> group, distinct |-> distinct, start |-> start,
     stop |-> stop, ascending |-> ascending, limit |-> limit]

\* The one service table the queries run on.
Service == <<"a">>

Select(start, stop) ==
    /\ reply = NoReply
    /\ reply' = Reply("select", Args(None, None, None, start, stop, None, None),
                      select(tables[Service], start, stop))
    /\ UNCHANGED <<queue, qorder, tables, arrived, timer, phase, log, inbox, flush>>

SelectAverage(field, start, stop) ==
    /\ reply = NoReply
    /\ reply' = Reply("select_average",
                      Args(Some(field), None, None, start, stop, None, None),
                      select_average(tables[Service], field, start, stop))
    /\ UNCHANGED <<queue, qorder, tables, arrived, timer, phase, log, inbox, flush>>

SelectCount(field, start, stop) ==
    /\ reply = NoReply
    /\ reply' = Reply("select_count", Args(field, None, None, start, stop, None, None),
                      select_count(tables[Service], field, start, stop))
    /\ UNCHANGED <<queue, qorder, tables, arrived, timer, phase, log, inbox, flush>>

SelectCountGroup(field, group, distinct, start, stop, ascending, limit) ==
    /\ reply = NoReply
    /\ reply' = Reply("select_count_group",
                      Args(field, Some(group), Some(distinct), start, stop,
                           Some(ascending), limit),
                      select_count_group(tables[Service], field, group, distinct,
                                         start, stop, ascending, limit))
    /\ UNCHANGED <<queue, qorder, tables, arrived, timer, phase, log, inbox, flush>>

Visits(start, stop) ==
    /\ reply = NoReply
    /\ reply' = Reply("visits", Args(None, None, None, start, stop, None, None),
                      visits(tables[Service], start, stop))
    /\ UNCHANGED <<queue, qorder, tables, arrived, timer, phase, log, inbox, flush>>

Unique(start, stop) ==
    /\ reply = NoReply
    /\ reply' = Reply("unique", Args(None, None, None, start, stop, None, None),
                      unique(tables[Service], start, stop))
    /\ UNCHANGED <<queue, qorder, tables, arrived, timer, phase, log, inbox, flush>>

\* Table contents of up to MaxRows rows.  The aggregate queries read a table as a
\* bag, so one order of each bag is taken: by date, then by the other columns.
\* Lengths are multiples of 12, so that the mean of up to four of them is whole.
Dates == {1, 2}
Lengths == {0, 12, 24}
OptionalDates == {None} \cup {Some(d) : d \in Dates}

RowFamilies ==
    { {Row(d, ip, name, 0) : d \in Dates, ip \in {"ip1", "ip2"}, name \in {"n1", "n2"}},
      {Row(d, "ip1", name, 0) : d \in Dates, name \in {Null, "n1", "n2"}},
      {Row(d, "ip1", "n1", l) : d \in Dates, l \in Lengths} }

row_rank(r) ==
    ((r.date * 2 + (IF r.ip = "ip1" THEN 0 ELSE 1)) * 3 + text_rank(r.platform_name)) * 25
        + r.length

TableContents ==
    UNION { { rows \in [1..n -> F] :
                \A i \in 1..(n - 1) : row_rank(rows[i]) <= row_rank(rows[i + 1]) } :
            n \in 0..MaxRows, F \in RowFamilies }

\* The field and distinct arguments the callers of select_count_group pass: the
\* top-N commands count ip, distinct or not; the Web handler counts rows, or a
\* field with distinct.
CountedFields == {<<None, FALSE>>, <<Some("ip"), FALSE>>, <<Some("ip"), TRUE>>}

Limits == {None} \cup {Some(k) : k \in 0..MaxLimit}

InitQuery ==
    /\ queue = <<>>
    /\ qorder = <<>>
    /\ tables \in {(Service :> rows) : rows \in TableContents}
    /\ arrived = 0
    /\ timer = "sleeping"
    /\ phase = "running"
    /\ log = Log("init", "ok", <<>>)
    /\ inbox = NoInbox
    /\ reply = NoReply
    /\ flush = NoFlush

NextQuery ==
    \/ \E start \in OptionalDates, stop \in OptionalDates : Select(start, stop)
    \/ \E start \in OptionalDates, stop \in OptionalDates :
         SelectAverage("length", start, stop)
    \/ \E field \in {None, Some("ip"), Some("platform_name")},
          start \in OptionalDates, stop \in OptionalDates :
         SelectCount(field, start, stop)
    \/ \E count \in CountedFields,
          start \in OptionalDates, stop \in OptionalDates,
          ascending \in BOOLEAN, limit \in Limits :
         SelectCountGroup(count[1], "platform_name", count[2], start, stop, ascending, limit)
    \/ \E start \in OptionalDates, stop \in OptionalDates : Visits(start, stop)
    \/ \E start \in OptionalDates, stop \in OptionalDates : Unique(start, stop)
    \/ Forget

SpecQuery == InitQuery /\ [][NextQuery]_vars

(***************************************************************************)
(* Ballcone: isint, unwrap_top_limit, handle_command                       *)
(***************************************************************************)
\* The default of the top_limit argument of Ballcone.__init__.
top_limit == 5

\* The characters of a parameter: digits, the sign, and one that int() rejects.
Digits == <<"0", "1", "2">>
ParameterChars == {"0", "1", "2", "-", "x"}

RECURSIVE ParameterStrings(_)
ParameterStrings(n) ==
    IF n = 0
    THEN {<<>>}
    ELSE ParameterStrings(n - 1)
           \cup {Append(s, c) : s \in ParameterStrings(n - 1), c \in ParameterChars}

Parameters == {None} \cup {Some(s) : s \in ParameterStrings(MaxParameterLen)}

is_digit(c) == \E i \in 1..Len(Digits) : Digits[i] = c
digit_value(c) == (CHOOSE i \in 1..Len(Digits) : Digits[i] = c) - 1

RECURSIVE digits_value(_)
digits_value(s) ==
    IF s = <<>> THEN 0 ELSE digits_value(SubSeq(s, 1, Len(s) - 1)) * 10 + digit_value(s[Len(s)])

all_digits(s) == s # <<>> /\ \A i \in 1..Len(s) : is_digit(s[i])

\* int(s): an optional sign and decimal digits; anything else is a ValueError.
int_raises(s) ==
    ~(all_digits(s) \/ (s # <<>> /\ s[1] = "-" /\ all_digits(Tail(s))))

int(s) == IF s[1] = "-" THEN 0 - digits_value(Tail(s)) ELSE digits_value(s)

isint(s) ==
    IF s = None \/ s = Some(<<>>)
    THEN FALSE
    ELSE IF int_raises(s[1]) THEN FALSE ELSE int(s[1]) # 0

\* top_limit if top_limit else self.top_limit: None and 0 are falsy.
unwrap_top_limit(limit) ==
    IF limit # None /\ limit[1] # 0 THEN limit[1] ELSE top_limit

\* The call of the DAO a command is answered with: the query, the counted field,
\* the group and the limit; None for a command that is not known.
DaoCall(query, field, group, limit) ==
    [query |-> query, field |-> field, group |-> group, limit |-> limit]

TopCommands ==
    [os      |-> <<"ip", "platform_name">>,
     browser |-> <<"ip", "browser_name">>,
     uri     |-> <<"ip", "path">>,
     ip      |-> <<"status", "ip">>,
     country |-> <<"ip", "country_iso_code">>]

Commands == {"time", "bytes", "os", "browser", "uri", "ip", "country", "visits", "unique", "other"}

handle_command(command, parameter) ==
    IF command = "time" THEN DaoCall("select_average", Some("generation_time"), None, None)
    ELSE IF command = "bytes" THEN DaoCall("select_average", Some("length"), None, None)
    ELSE IF command \in DOMAIN TopCommands
    THEN LET n == unwrap_top_limit(IF isint(parameter) THEN Some(int(parameter[1])) ELSE None)
         IN  DaoCall("select_count_group", Some(TopCommands[command][1]),
                     Some(TopCommands[command][2]), Some(n))
    ELSE IF command = "visits" THEN DaoCall("select_count", None, None, None)
    ELSE IF command = "unique" THEN DaoCall("select_count", Some("ip"), None, None)
    ELSE None

HandleCommand(command, parameter, start, stop) ==
    /\ reply = NoReply
    /\ reply' = Reply("handle_command",
                      [command |-> command, parameter |-> parameter,
                       start |-> start, stop |-> stop],
                      handle_command(command, parameter))
    /\ UNCHANGED <<queue, qorder, tables, arrived, timer, phase, log, inbox, flush>>

NextCommand ==
    \/ \E command \in Commands, parameter \in Parameters, start \in Dates, stop \in Dates :
         HandleCommand(command, parameter, start, stop)
    \/ Forget

SpecCommand == Init /\ [][NextCommand]_vars

(***************************************************************************)
(* WebBallcone: service, average_or_count, count_group                     *)
(***************************************************************************)
\* What a handler answers: the HTTP status, and the aggregate queries it ran
\* against the service, in order.
Response(status, queries) == [status |-> status, queries |-> queries]

\* The aggregate queries of a route, in the order the handler runs them.
RouteQueries ==
    [service     |-> <<"select_count", "select_count", "select_average",
                       "select_count_group", "select_count_group">>,
     average     |-> <<"select_average">>,
     count       |-> <<"select_count">>,
     count_group |-> <<"select_count_group">>]

\* A query on a table that does not exist raises DatabaseError: the handler ends
\* at its first query and the framework answers 500.
run_queries(route, service) ==
    IF table_exists(service)
    THEN Response(200, RouteQueries[route])
    ELSE Response(500, <<RouteQueries[route][1]>>)

\* Faulty variant of handle_request: the service name is checked after the
\* queries have run.
handle_request_late(route, service) ==
    IF ~check_service(service, FALSE)
    THEN Response(404, run_queries(route, service).queries)
    ELSE run_queries(route, service)

\* if not self.ballcone.check_service(service): raise web.HTTPNotFound(...)
handle_request(route, service) ==
    IF ~check_service(service, FALSE)
    THEN Response(404, <<>>)
    ELSE run_queries(route, service)

\* A GET of /services/{service}[/average|/count|/count_group/...].
WebRequest(route, service) ==
    /\ reply = NoReply
    /\ reply' = Reply("web", [route |-> route, service |-> service],
                      handle_request(route, service))
    /\ UNCHANGED <<queue, qorder, tables, arrived, timer, phase, log, inbox, flush>>

NextWeb ==
    \/ \E route \in DOMAIN RouteQueries, service \in Strings(MaxServiceLen) :
         WebRequest(route, service)
    \/ Forget

SpecWeb == Init /\ [][NextWeb]_vars

(***************************************************************************)
(* datagram_received, lines 67-89: the entry built from the payload        *)
(***************************************************************************)
\* What an ISO 8601 string denotes: a wall clock in seconds from 1970-01-01
\* 00:00 on that clock, a microsecond, and the offset of the clock from UTC.
Iso(wall, micro, utcoffset) == [wall |-> wall, microsecond |-> micro, utcoffset |-> utcoffset]

\* datetime.astimezone(timezone.utc): the same instant on the UTC clock.
astimezone_utc(dt) == Iso(dt.wall - dt.utcoffset, dt.microsecond, 0)

\* datetime.date(): the day of the object's own wall clock.
date_of(dt) == PyDate(DateOf(dt.wall))

\* typing.cast returns its value unchanged; int() of a JSON number, or of its
\* decimal string, is that number, of any size.
cast_smallint(status) == status

\* Faulty variant of build_entry: the date is taken before the move to UTC.
build_entry_local_date(content) ==
    LET current_datetime == astimezone_utc(content.date)
    IN  [datetime |-> PyDatetime(current_datetime.wall, current_datetime.microsecond, TRUE),
         date     |-> date_of(content.date),
         host     |-> PyStr(content.host),
         referer  |-> PyStr(content.referrer),
         ip       |-> PyIp(content.ip),
         is_robot |-> PyNone,
         status   |-> cast_smallint(content.status)]

\* Entry(datetime=current_datetime, date=current_datetime.date(), ...): the
\* fields of EntryFields and the status.
build_entry(content) ==
    LET current_datetime == astimezone_utc(content.date)
    IN  [datetime |-> PyDatetime(current_datetime.wall, current_datetime.microsecond, TRUE),
         date     |-> date_of(current_datetime),
         host     |-> PyStr(content.host),
         referer  |-> PyStr(content.referrer),
         ip       |-> PyIp(content.ip),
         is_robot |-> PyNone,
         status   |-> cast_smallint(content.status)]

\* Payloads: wall clocks on both sides of a midnight, offsets west and east of
\* UTC, and statuses inside and outside of sixteen bits.
Walls == {0, 60 * 60, 24 * 60 * 60 - 1, 24 * 60 * 60, 25 * 60 * 60}
Offsets == {0 - 5 * 60 * 60, 0, 60 * 60, 19800}
Statuses == {0 - 32769, 0 - 32768, 200, 404, 32767, 32768, 65736}

Contents ==
    { [date |-> Iso(wall, 0, utcoffset), host |-> "h", referrer |-> "", ip |-> "ip1",
       status |-> status] :
        wall \in Walls, utcoffset \in Offsets, status \in Statuses }

\* The handler builds the entry and appends it; persist() later inserts
\* entry.as_values().
BuildEntry(content) ==
    /\ reply = NoReply
    /\ LET entry == build_entry(content)
       IN  reply' = Reply("append", content, [entry |-> entry, row |-> as_values(entry)])
    /\ UNCHANGED <<queue, qorder, tables, arrived, timer, phase, log, inbox, flush>>

NextBuild ==
    \/ \E content \in Contents : BuildEntry(content)
    \/ Forget

SpecBuild == Init /\ [][NextBuild]_vars

(***************************************************************************)
(* The event loop, with persist() taken one service at a time               *)
(***************************************************************************)
in_flight(by) == flush[by].i > 0

\* Faulty variant of loop_idle: a callback may start while a persist() call is
\* in progress, as if persist() awaited between two services.
loop_idle_always == TRUE

\* persist() is a plain function called by the coroutine persist_timer after its
\* await, and by main after the loop has returned: it contains no await, so the
\* loop calls no other callback, delivers no cancellation and main runs no
\* statement until the call has returned or raised.
loop_idle == \A by \in DOMAIN flush : ~in_flight(by)

LoopDatagramReceived(d, dberr) ==
    /\ loop_idle
    /\ DatagramReceived(d, dberr)

\* await asyncio.sleep(...) returns True: persist() is called.
TimerWakes ==
    /\ loop_idle
    /\ phase = "running"
    /\ timer = "sleeping"
    /\ timer' = "persisting"
    /\ flush' = [flush EXCEPT !.timer = Frame(1, <<>>)]
    /\ UNCHANGED <<queue, qorder, tables, arrived, phase, log, inbox, reply>>

\* try: ballcone.persist(), called by the finally block of main.
FinalBegins ==
    /\ loop_idle
    /\ phase = "geoip_closed"
    /\ flush' = [flush EXCEPT !.final = Frame(1, <<>>)]
    /\ UNCHANGED <<queue, qorder, tables, arrived, timer, phase, log, inbox, reply>>

\* The end of a persist() call, by return or by the DatabaseError of a flush: the
\* timer sleeps again or its task is done; main goes on to its inner finally.
FlushEnds(by, counts, raised) ==
    /\ flush' = [flush EXCEPT ![by] = Frame(0, <<>>)]
    /\ IF by = "timer"
       THEN /\ timer' = timer_after(raised)
            /\ log' = Log("persist_timer", IF raised THEN "database_error" ELSE "ok", counts)
            /\ UNCHANGED phase
       ELSE /\ phase' = "persisted"
            /\ log' = Log("final_persist", IF raised THEN "database_error" ELSE "ok", counts)
            /\ UNCHANGED timer

\* One iteration of the loop of persist(): the batch insert of one service.
FlushService(by, failAt) ==
    /\ in_flight(by)
    /\ flush[by].i <= Len(qorder)
    /\ LET service == qorder[flush[by].i]
           exists == table_exists(service)
           r == batch_insert_into_from_deque(
                    exists, IF exists THEN tables[service] ELSE <<>>, queue[service], failAt)
       IN  /\ queue' = [queue EXCEPT ![service] = r.entries]
           /\ tables' = IF exists THEN [tables EXCEPT ![service] = r.rows] ELSE tables
           /\ IF r.raised
              THEN FlushEnds(by, flush[by].counts, TRUE)
              ELSE /\ flush' = [flush EXCEPT
                                  ![by] = Frame(flush[by].i + 1, Append(flush[by].counts, r.count))]
                   /\ UNCHANGED <<timer, phase, log>>
    /\ UNCHANGED <<qorder, arrived, inbox, reply>>

\* The loop of persist() is through: the call returns.
FlushReturns(by) ==
    /\ in_flight(by)
    /\ flush[by].i > Len(qorder)
    /\ FlushEnds(by, flush[by].counts, FALSE)
    /\ UNCHANGED <<queue, qorder, tables, arrived, inbox, reply>>

LoopCancelTasks ==
    /\ loop_idle
    /\ CancelTasks

NextLoop ==
    \/ \E d \in Datagrams, dberr \in DbErrors : LoopDatagramReceived(d, dberr)
    \/ TimerWakes
    \/ \E by \in DOMAIN flush, failAt \in {0} \cup FailAts : FlushService(by, failAt)
    \/ \E by \in DOMAIN flush : FlushReturns(by)
    \/ LoopCancelTasks
    \/ GeoipClose
    \/ FinalBegins
    \/ ConnectionClose

SpecLoop == Init /\ [][NextLoop]_vars

\* The ingest path in steps, over the payloads of the full system: those with a
\* field that is missing or does not convert among them.
NextArrive ==
    \/ \E d \in Datagrams : Arrive(d)
    \/ \E dberr \in DbErrors : Deliver(dberr)
    \/ Release

SpecArrive == Init /\ [][NextArrive]_vars

(***************************************************************************)
(* Properties                                                              *)
(***************************************************************************)
Range(f) == {f[x] : x \in DOMAIN f}

PersistOps == {"persist_timer", "final_persist"}

\* The service whose flush raised: the first one without a returned count.
FailedService(l) == qorder[Len(l.counts) + 1]

\* C1: a persist() that meets no database error leaves every staging queue empty
\* and appends to each service's table exactly the records its queue held when
\* the flush began; each batch insert returns the number of records it drained.
C1_PersistDrainsAndCommits ==
    [][ (log'.op \in PersistOps /\ log'.out = "ok") =>
          /\ Len(log'.counts) = Len(qorder)
          /\ \A i \in 1..Len(qorder) :
               /\ queue'[qorder[i]] = <<>>
               /\ tables'[qorder[i]] = tables[qorder[i]] \o queue[qorder[i]]
               /\ log'.counts[i] = Len(queue[qorder[i]]) ]_vars

\* A persist() without error has just committed a batch of two records.
C1_Witness ==
    /\ log.op \in PersistOps
    /\ log.out = "ok"
    /\ \E i \in 1..Len(log.counts) :
         log.counts[i] = 2 /\ Len(tables[qorder[i]]) = 2 /\ queue[qorder[i]] = <<>>

\* C2: a batch insert is all-or-nothing.  After a persist() every table holds
\* either what it held before or that plus the whole batch; a batch one of whose
\* inserts fails (a NULL for a NOT NULL column) raises to the caller of
\* persist(), and the table of the batch that raised holds none of its rows.
C2_BatchAllOrNothing ==
    [][ log'.op \in PersistOps =>
          /\ DOMAIN tables' = DOMAIN tables
          /\ \A s \in DOMAIN tables \ DOMAIN queue : tables'[s] = tables[s]
          /\ \A s \in DOMAIN queue :
               tables'[s] = tables[s] \/ tables'[s] = tables[s] \o queue[s]
          /\ (\E s \in DOMAIN queue : \E i \in 1..Len(queue[s]) : queue[s][i].host = "null")
                => log'.out = "database_error"
          /\ log'.out = "database_error" =>
                tables'[FailedService(log')] = tables[FailedService(log')] ]_vars

\* The timer's persist() raised on a batch of two records, none of which is in
\* the table (nothing was flushed before: the timer was still alive).
C2_Witness ==
    /\ log.op = "persist_timer"
    /\ log.out = "database_error"
    /\ arrived = 2
    /\ Len(qorder) = 1
    /\ queue[qorder[1]] = <<>>
    /\ tables[qorder[1]] = <<>>

\* C3 as stated: after a flush that raised, no record the queue held when the
\* flush began is in the queue or in the table.
C3_Original ==
    [][ (log'.op \in PersistOps /\ log'.out = "database_error") =>
          \A i \in 1..Len(queue[FailedService(log')]) :
             /\ queue[FailedService(log')][i] \notin Range(queue'[FailedService(log')])
             /\ queue[FailedService(log')][i] \notin Range(tables'[FailedService(log')]) ]_vars

\* C3: after a flush that raised, the records popped up to the failure (at least
\* one: the head of the queue up to and including the record whose insert failed,
\* the whole queue when the commit failed) are neither in the queue nor in the
\* table; the records behind them are still in the queue, in order, uncommitted.
C3_PoppedRecordsLost ==
    [][ (log'.op \in PersistOps /\ log'.out = "database_error") =>
          LET s == FailedService(log')
              n == Len(queue[s])
          IN  /\ tables'[s] = tables[s]
              /\ \E k \in 1..n :
                   /\ queue'[s] = SubSeq(queue[s], k + 1, n)
                   /\ \A i \in 1..(k - 1) : queue[s][i].host # "null"
              /\ \A i \in 1..n : queue[s][i] \notin Range(tables'[s]) ]_vars

\* A flush raised at its first record and the record behind it is still queued.
C3_Witness ==
    /\ log.op \in PersistOps
    /\ log.out = "database_error"
    /\ Len(queue[FailedService(log)]) = 1
    /\ queue[FailedService(log)][1].seq = 2
    /\ tables[FailedService(log)] = <<>>

\* C4 as stated: a database error in a timer-driven persist() leaves the timer
\* running (sleeping towards the next interval).
C4_Original ==
    (log.op = "persist_timer" /\ log.out = "database_error") => timer = "sleeping"

\* C5: within a service, records are committed in the order their datagrams were
\* accepted: the rows of the table followed by the entries of the queue are in
\* strictly increasing arrival order.
C5_CommittedInArrivalOrder ==
    \A s \in DOMAIN queue :
       LET all == (IF s \in DOMAIN tables THEN tables[s] ELSE <<>>) \o queue[s]
       IN  \A i, j \in 1..Len(all) : i < j => all[i].seq < all[j].seq

\* Two records of one service have been committed.
C5_Witness == \E s \in DOMAIN queue : s \in DOMAIN tables /\ Len(tables[s]) = 2

\* C6: every service with a key in the staging map has a table of the same name.
C6_QueueHasTable == DOMAIN queue \subseteq DOMAIN tables

\* Ingest created a table and a queue for a service that had none, and the
\* creation of a table for another service has just failed.
C6_Witness ==
    /\ <<"a", "a">> \in DOMAIN queue
    /\ log.op = "datagram_received"
    /\ log.out = "database_error"
    /\ DOMAIN tables = {<<"a", "a">>}

\* The handler has just run on the datagram in the inbox.
Delivered == inbox.at = "received" /\ inbox'.at = "handled"

SpaceOnly(raw) == \A i \in 1..Len(raw) : raw[i] \in SpaceChars

SpaceInside(raw) ==
    \E i, j, k \in 1..Len(raw) :
       i < j /\ j < k /\ raw[i] \notin SpaceChars /\ raw[j] \in SpaceChars
                      /\ raw[k] \notin SpaceChars

\* Malformed UTF-8, no syslog framing, malformed JSON, or a service field that is
\* missing, empty, not a string, or not a name once trimmed.
Rejectable(d) ==
    \/ d.wire \in {"bad_utf8", "no_frame", "bad_json"}
    \/ /\ d.wire = "json"
       /\ \/ d.skind \in {"absent", "falsy", "number"}
          \/ /\ d.skind = "str"
             /\ \/ SpaceOnly(d.service)
                \/ SpaceInside(d.service)
                \/ \E i \in 1..Len(d.service) : d.service[i] \in OtherChars

\* C7: a rejected datagram changes nothing: the staging map, every queue and the
\* tables are after the handler as before it.
C7_RejectedChangesNothing ==
    [][ (Delivered /\ Rejectable(inbox.d)) =>
          UNCHANGED <<queue, qorder, tables, arrived>> ]_vars

\* The handler has run on a payload whose service is not a name.
C7_Witness ==
    /\ inbox.at = "handled"
    /\ inbox.d.service = <<"-">>
    /\ log.out = "malformed_service"

\* C8 as stated: every record in a staging queue has a present, correctly typed
\* value for the non-nullable field host.
C8_Original == \A s \in DOMAIN queue : \A i \in 1..Len(queue[s]) : queue[s][i].host = "str"

\* key is raw without its leading and trailing whitespace, in lower case.
IsTrimmedLowerOf(key, raw) ==
    \E i, j \in 0..Len(raw) :
       /\ i + j + Len(key) = Len(raw)
       /\ \A n \in 1..i : raw[n] \in SpaceChars
       /\ \A n \in (Len(raw) - j + 1)..Len(raw) : raw[n] \in SpaceChars
       /\ key # <<>> => key[1] \notin SpaceChars /\ key[Len(key)] \notin SpaceChars
       /\ \A n \in 1..Len(key) :
            key[n] = (IF raw[i + n] \in UpperChars THEN "a" ELSE raw[i + n])

\* C9: every name under which the handler creates a table or a queue is the
\* trimmed, lower-cased service value of the payload, is a non-empty string of
\* word characters, and holds no upper-case letter and no whitespace.
C9_ServiceNameNormalised ==
    [][ Delivered =>
          \A key \in (DOMAIN queue' \ DOMAIN queue) \cup (DOMAIN tables' \ DOMAIN tables) :
             /\ inbox.d.skind = "str"
             /\ IsTrimmedLowerOf(key, inbox.d.service)
             /\ key # <<>>
             /\ \A n \in 1..Len(key) : key[n] \in LowerChars ]_vars

\* A payload with service "A " has made the table and the queue "a".
C9_Witness ==
    /\ inbox.at = "handled"
    /\ inbox.d.service = <<"A", " ">>
    /\ log.out = "appended"
    /\ qorder = << <<"a">> >>
    /\ <<"a">> \in DOMAIN tables

\* C10 as stated: a datagram whose service value contains a whitespace character
\* creates no table and no queue and enqueues nothing.
C10_Original ==
    [][ (Delivered /\ inbox.d.skind = "str"
           /\ \E i \in 1..Len(inbox.d.service) : inbox.d.service[i] \in SpaceChars) =>
          UNCHANGED <<queue, qorder, tables, arrived>> ]_vars

\* C10: a datagram whose service value has whitespace between two other
\* characters (whitespace that trimming leaves in place) creates no table and no
\* queue and enqueues nothing.
C10_InnerWhitespaceRejected ==
    [][ (Delivered /\ inbox.d.skind = "str" /\ SpaceInside(inbox.d.service)) =>
          UNCHANGED <<queue, qorder, tables, arrived>> /\ log'.out = "malformed_service" ]_vars

\* The handler has rejected a payload with service "a a".
C10_Witness ==
    /\ inbox.at = "handled"
    /\ inbox.d.service = <<"a", " ", "a">>
    /\ log.out = "malformed_service"

\* C11: round trip.  For every record r accepted by ingest, the row that select
\* returns for it after a persist -- from_values of the as_values of r -- equals
\* r field by field.
C11_Original ==
    reply.op = "select" => reply.result[1] = reply.args

\* The elements of a result that belong to one date, in the result's order.
ElementsOf(elements, d) == SelectSeq(elements, LAMBDA e : e.date = d)

\* The order the claims name: date ascending, then count in the requested
\* direction, then group name ascending.
Before(a, b, ascending) ==
    \/ a.date < b.date
    \/ a.date = b.date /\ ascending /\ a.count < b.count
    \/ a.date = b.date /\ ~ascending /\ a.count > b.count
    \/ a.date = b.date /\ a.count = b.count /\ text_rank(a.group) < text_rank(b.group)

\* What the call of reply returns when it is given no limit.
Unlimited ==
    select_count_group(tables[Service], reply.args.field, reply.args.group[1],
                       reply.args.distinct[1], reply.args.start, reply.args.stop,
                       reply.args.ascending[1], None).elements

\* C12: with a limit k, select_count_group returns for each date exactly the
\* first min(k, n) of that date's n groups under the order (count in the requested
\* direction, then group name ascending), and the whole result is sorted by date
\* ascending, then count in the requested direction, then group name ascending.
C12_TopGroupsPerDate ==
    (reply.op = "select_count_group" /\ reply.args.limit # None) =>
        LET k == reply.args.limit[1]
            asc == reply.args.ascending[1]
            got == reply.result.elements
            full == Unlimited
        IN  /\ \A d \in Dates :
                 LET groups == {full[i] : i \in {j \in DOMAIN full : full[j].date = d}}
                     first == {e \in groups :
                                  Cardinality({o \in groups : Before(o, e, asc)}) < k}
                 IN  /\ {got[i] : i \in {j \in DOMAIN got : got[j].date = d}} = first
                     /\ Len(ElementsOf(got, d)) = Cardinality(first)
            /\ \A i \in 1..(Len(got) - 1) : Before(got[i], got[i + 1], asc)

\* A top-1 query, descending, on a date with two groups of different counts:
\* the bigger group of that date is returned.
C12_Witness ==
    /\ reply.op = "select_count_group"
    /\ reply.args.limit = Some(1)
    /\ reply.args.ascending = Some(FALSE)
    /\ \E d \in Dates :
         /\ Len(ElementsOf(Unlimited, d)) = 2
         /\ ElementsOf(reply.result.elements, d) = <<ElementsOf(Unlimited, d)[1]>>
         /\ ElementsOf(Unlimited, d)[1].count > ElementsOf(Unlimited, d)[2].count

\* C13: for every table content, date range and limit k, select_count_group
\* with limit k returns at most k rows for each date.
C13_AtMostLimitPerDate ==
    (reply.op = "select_count_group" /\ reply.args.limit # None) =>
        \A d \in Dates : Len(ElementsOf(reply.result.elements, d)) <= reply.args.limit[1]

\* A limit of 1 has cut a date of three groups down to one row.
C13_Witness ==
    /\ reply.op = "select_count_group"
    /\ reply.args.limit = Some(1)
    /\ reply.args.ascending = Some(TRUE)
    /\ \E d \in Dates :
         /\ Len(ElementsOf(Unlimited, d)) = 3
         /\ Len(ElementsOf(reply.result.elements, d)) = 1

\* start <= date <= stop, an absent bound being no constraint.
InRange(date, start, stop) ==
    /\ start = None \/ start[1] <= date
    /\ stop = None \/ date <= stop[1]

RowsInRange == SelectSeq(tables[Service], LAMBDA r : InRange(r.date, reply.args.start, reply.args.stop))

\* C14: for select, select_average, select_count and select_count_group a row
\* contributes to the result iff start <= row.date <= stop, an absent bound being
\* no constraint: the result is the one the rows in range alone give without
\* bounds.  start = stop selects exactly that date; a stop before every row
\* gives an empty result.
C14_RowsInRangeContribute ==
    /\ reply.op = "select" => reply.result = RowsInRange
    /\ reply.op = "select_average" =>
         reply.result = select_average(RowsInRange, reply.args.field[1], None, None)
    /\ reply.op = "select_count" =>
         reply.result = select_count(RowsInRange, reply.args.field, None, None)
    /\ reply.op = "select_count_group" =>
         reply.result = select_count_group(RowsInRange, reply.args.field,
                            reply.args.group[1], reply.args.distinct[1], None, None,
                            reply.args.ascending[1], reply.args.limit)
    /\ (reply.op = "select" /\ reply.args.start # None /\ reply.args.start = reply.args.stop) =>
         \A i \in DOMAIN tables[Service] :
            (tables[Service][i].date = reply.args.start[1]) <=>
                (\E j \in DOMAIN reply.result : reply.result[j] = tables[Service][i])
    /\ (reply.op \in {"select", "select_average"} /\ reply.args.stop # None
           /\ \A i \in DOMAIN tables[Service] : reply.args.stop[1] < tables[Service][i].date) =>
         reply.result = <<>>

\* A select with start = stop on a table with rows of that date and of another:
\* some rows are returned and some are not.
C14_Witness ==
    /\ reply.op = "select"
    /\ reply.args.start # None
    /\ reply.args.start = reply.args.stop
    /\ reply.result # <<>>
    /\ Len(reply.result) < Len(tables[Service])

\* The positions of the rows in range that have the date d.
RowsOfDate(d) ==
    {i \in DOMAIN tables[Service] :
        /\ tables[Service][i].date = d
        /\ InRange(d, reply.args.start, reply.args.stop)}

DatesInRange == {d \in Dates : RowsOfDate(d) # {}}

\* One element per date that has a row in range, in ascending order of date.
OnePerDate(elements) ==
    /\ {elements[i].date : i \in DOMAIN elements} = DatesInRange
    /\ \A i \in 1..(Len(elements) - 1) : elements[i].date < elements[i + 1].date

\* C15: select_count returns one element per date that has at least one row in
\* range, in ascending order of date; without a field the count is the number of
\* rows of that date, with a field it is the number of distinct non-null values
\* of that field; the result is flagged distinct exactly when a field was given.
C15_CountPerDate ==
    reply.op = "select_count" =>
        LET el == reply.result.elements
            f == reply.args.field
        IN  /\ OnePerDate(el)
            /\ \A i \in DOMAIN el :
                 el[i].count =
                    IF f = None
                    THEN Cardinality(RowsOfDate(el[i].date))
                    ELSE Cardinality({tables[Service][j][f[1]] : j \in RowsOfDate(el[i].date)}
                                        \ {Null})
            /\ reply.result.distinct = (f # None)

\* A count of a field on a date that has three rows, one of them NULL and the
\* other two equal: the count is 1.
C15_Witness ==
    /\ reply.op = "select_count"
    /\ reply.args.field = Some("platform_name")
    /\ \E i \in DOMAIN reply.result.elements :
         /\ reply.result.elements[i].count = 1
         /\ Cardinality(RowsOfDate(reply.result.elements[i].date)) = 3
         /\ \E j \in RowsOfDate(reply.result.elements[i].date) :
              tables[Service][j].platform_name = Null

RECURSIVE SumOver(_, _)
SumOver(S, column) ==
    IF S = {}
    THEN 0
    ELSE LET i == CHOOSE j \in S : TRUE
         IN  tables[Service][i][column] + SumOver(S \ {i}, column)

\* C16: select_average returns one element per date that has at least one row in
\* range, in ascending order of date, whose count is the number of rows of that
\* date with a non-null value of the field, whose sum is the sum of those values
\* (0 when the count is 0) and whose avg is sum divided by count.
C16_AveragePerDate ==
    reply.op = "select_average" =>
        LET el == reply.result
            f == reply.args.field[1]
        IN  /\ OnePerDate(el)
            /\ \A i \in DOMAIN el :
                 /\ el[i].count = Cardinality(RowsOfDate(el[i].date))
                 /\ el[i].sum = SumOver(RowsOfDate(el[i].date), f)
                 /\ el[i].count = 0 => el[i].sum = 0
                 /\ el[i].avg * el[i].count = el[i].sum

\* An average over two dates, one of them with the lengths 12 and 24.
C16_Witness ==
    /\ reply.op = "select_average"
    /\ Len(reply.result) = 2
    /\ \E i \in DOMAIN reply.result :
         reply.result[i].count = 2 /\ reply.result[i].sum = 36 /\ reply.result[i].avg = 18

\* C17: for the same service, date and range, the unique count (distinct ip per
\* day) is at most the visits count (rows per day).
C17_UniqueAtMostVisits ==
    reply.op = "unique" =>
        LET v == visits(tables[Service], reply.args.start, reply.args.stop).elements
            u == reply.result.elements
        IN  \A i \in DOMAIN u :
                \E j \in DOMAIN v : v[j].date = u[i].date /\ u[i].count <= v[j].count

\* A day of three visits from two addresses.
C17_Witness ==
    /\ reply.op = "unique"
    /\ \E i \in DOMAIN reply.result.elements :
         /\ reply.result.elements[i].count = 2
         /\ \E j \in DOMAIN visits(tables[Service], reply.args.start, reply.args.stop).elements :
              LET v == visits(tables[Service], reply.args.start, reply.args.stop).elements[j]
              IN  v.date = reply.result.elements[i].date /\ v.count = 3

\* The parameter is present and is a positive integer.
PositiveInteger(parameter) ==
    /\ parameter # None
    /\ all_digits(parameter[1])
    /\ digits_value(parameter[1]) > 0

\* C18: for the top-N commands (os, browser, uri, ip, country) of handle_command
\* the limit passed to the query is the parameter's integer value when the
\* parameter is present and is a positive integer, and is the default top_limit
\* in every other case (absent, empty, non-numeric, zero or negative).
C18_Original ==
    (reply.op = "handle_command" /\ reply.args.command \in DOMAIN TopCommands) =>
        reply.result.limit =
            IF PositiveInteger(reply.args.parameter)
            THEN Some(digits_value(reply.args.parameter[1]))
            ELSE Some(top_limit)

\* How far the shutdown has come.
TasksCancelled == phase # "running"
GeoipClosed == phase \in {"geoip_closed", "persisted", "closed"}
FinalPersistDone == phase \in {"persisted", "closed"}
ConnectionClosed == phase = "closed"

C20_InvalidServiceNotFound ==
    (reply.op = "web" /\ ~check_service(reply.args.service, FALSE)) =>
        (reply.result.status = 404 /\ reply.result.queries = <<>>)

\* A count_group request for a service name with a space inside was answered 404.
C20_Witness ==
    /\ reply.op = "web"
    /\ reply.args.route = "count_group"
    /\ reply.args.service = <<"a", " ", "a">>
    /\ reply.result.status = 404

\* C21: no record appended by the syslog handler is lost to a concurrent flush.
\* While a persist() call is in progress no datagram_received call runs: nothing
\* is appended, no key is added to the staging map, and nothing is logged but
\* the end of that call.  An append therefore lands wholly before a flush or
\* wholly after it.
C21_NoHandlerDuringFlush ==
    [][ (\E by \in DOMAIN flush : in_flight(by)) =>
          /\ qorder' = qorder
          /\ DOMAIN queue' = DOMAIN queue
          /\ arrived' = arrived
          /\ \A service \in DOMAIN queue : Len(queue'[service]) <= Len(queue[service])
          /\ log' # log => log'.op \in PersistOps ]_vars

\* A persist() call has flushed its first service and is at the second, whose
\* queue holds a record.
C21_Witness ==
    /\ in_flight("timer")
    /\ flush.timer.i = 2
    /\ Len(qorder) = 2
    /\ tables[qorder[1]] # <<>>
    /\ queue[qorder[2]] # <<>>

C23_CancelOnlyWhileSleeping ==
    [][ /\ in_flight("timer") =>
            /\ phase' = "running"
            /\ timer' # "cancelled"
            /\ in_flight("timer")' \/ (log'.op = "persist_timer" /\ timer' \in {"sleeping", "failed"})
        /\ timer' = "cancelled" => timer \in {"sleeping", "cancelled"} ]_vars

\* The timer was cancelled in its sleep, after its flushes had committed two
\* records to a table.
C23_Witness ==
    /\ timer = "cancelled"
    /\ phase = "tasks_cancelled"
    /\ log.op = "cancel_tasks"
    /\ \E service \in DOMAIN tables : Len(tables[service]) = 2

\* C24: a failure of the final shutdown persist() does not stop the shutdown: the
\* database connection is closed whether the final persist() returns normally
\* or raises.  After the final persist, however it ended, main is at the close
\* of the connection and nothing keeps it from closing.
C24_CloseAfterFinalPersist ==
    /\ log.op = "final_persist" => (phase = "persisted" /\ ENABLED ConnectionClose)
    /\ phase = "persisted" => log.op = "final_persist"
    /\ phase = "closed" => log.op = "connection_close"

\* The connection has been closed after a final persist that raised.
C24_Witness ==
    /\ phase = "closed"
    /\ log.op = "connection_close"
    /\ log.out = "database_error"

\* The number of places the record with arrival number n is in: once for each
\* position of a queue or of a table that holds it.
Occurrences(q, t, n) ==
    Cardinality({<<s, i>> \in UNION {{s} \X (1..Len(q[s])) : s \in DOMAIN q} :
                    q[s][i].seq = n})
    + Cardinality({<<s, i>> \in UNION {{s} \X (1..Len(t[s])) : s \in DOMAIN t} :
                    t[s][i].seq = n})

\* C25: between handler invocations every record accepted by ingest is in exactly
\* one place: its service's staging queue, its service's table (exactly once), or
\* lost after a failed flush.  No record is committed twice, none is both in a
\* queue and in a table, and a record leaves both only in a persist() that raised.
C25_RecordInOnePlace ==
    [][ \A n \in 1..arrived' :
          /\ Occurrences(queue', tables', n) <= 1
          /\ n > arrived => Occurrences(queue', tables', n) = 1
          /\ (n <= arrived /\ Occurrences(queue, tables, n) = 1
                /\ Occurrences(queue', tables', n) = 0) =>
               (log'.op \in PersistOps /\ log'.out = "database_error") ]_vars

\* Of two accepted records one is committed and the other was lost in a flush
\* that raised.
C25_Witness ==
    /\ arrived = 2
    /\ \E n, m \in 1..2 :
         /\ Occurrences(queue, tables, n) = 0
         /\ Occurrences(<<>>, tables, m) = 1
    /\ log.out = "database_error"

\* C26: if the flush of one service raises a database error, persist() stops at
\* once and propagates the error: the queues of the services that come later in
\* the staging map's iteration order are left untouched by that call, and the
\* services flushed earlier in the call stay committed.
C26_PersistStopsAtFailure ==
    [][ (log'.op \in PersistOps /\ log'.out = "database_error") =>
          LET k == Len(log'.counts) + 1
          IN  /\ k <= Len(qorder)
              /\ \A i \in 1..Len(qorder) :
                   /\ i < k => /\ queue'[qorder[i]] = <<>>
                               /\ tables'[qorder[i]] = tables[qorder[i]] \o queue[qorder[i]]
                   /\ i > k => /\ queue'[qorder[i]] = queue[qorder[i]]
                               /\ tables'[qorder[i]] = tables[qorder[i]] ]_vars

\* The flush of the first of two services raised; the record of the second is
\* still queued.
C26_Witness ==
    /\ log.op \in PersistOps
    /\ log.out = "database_error"
    /\ log.counts = <<>>
    /\ Len(qorder) = 2
    /\ queue[qorder[2]] # <<>>
    /\ tables[qorder[2]] = <<>>

\* The payload in the inbox names a service that is a name once trimmed and has
\* no staging queue yet.
UnseenService(d) ==
    /\ d.wire = "json"
    /\ d.skind = "str"
    /\ ~Rejectable(d)
    /\ \A key \in DOMAIN queue : ~IsTrimmedLowerOf(key, d.service)

\* C27: for a datagram with a valid, previously unseen service name (and a
\* database that works), the table and an empty staging queue are created
\* before any other payload field is read: they exist after the handler ends,
\* even when building the record fails and nothing is enqueued.
C27_QueueMadeBeforeFields ==
    [][ (Delivered /\ UnseenService(inbox.d) /\ log'.out # "database_error") =>
          /\ log'.out \in {"appended", "field_error"}
          /\ \E key \in DOMAIN queue' \ DOMAIN queue :
               /\ IsTrimmedLowerOf(key, inbox.d.service)
               /\ key \in DOMAIN tables'
               /\ log'.out = "field_error" => (queue'[key] = <<>> /\ arrived' = arrived) ]_vars

\* The handler has run on a payload with a new service and a field that does
\* not convert: the table and the empty queue are there.
C27_Witness ==
    /\ inbox.at = "handled"
    /\ inbox.d.rest = "bad"
    /\ log.out = "field_error"
    /\ arrived = 0
    /\ DOMAIN queue = {<<"a", "a">>}
    /\ queue[<<"a", "a">>] = <<>>
    /\ <<"a", "a">> \in DOMAIN tables

\* The record with arrival number n is in a table.
Committed(n) == Occurrences(<<>>, tables, n) = 1

QueuesEmpty == \A service \in DOMAIN queue : queue[service] = <<>>

\* No database operation has failed and the persist timer has not been cancelled.
DatabaseWorks == log.out # "database_error" /\ timer # "cancelled"

\* C28: liveness.  If the database never fails and the persist timer is not
\* cancelled, every record accepted into a staging queue is eventually committed
\* to its service's table, and every staging queue is empty infinitely often.
\* The n-th record is accepted from the step that makes arrived = n on, for
\* ever: that it is committed at some time after is that, again and again, it
\* is committed if it is accepted.
C28_EventuallyCommitted ==
    []DatabaseWorks =>
        /\ \A n \in 1..MaxDatagrams : []<>(n <= arrived => Committed(n))
        /\ []<>QueuesEmpty

\* The timer has committed the records of two services and sleeps again.
C28_Witness ==
    /\ timer = "sleeping"
    /\ log.op = "persist_timer"
    /\ log.out = "ok"
    /\ log.counts = <<1, 1>>
    /\ QueuesEmpty
    /\ Committed(1)
    /\ Committed(2)

\* C29: every record placed in a staging queue has a status that fits a signed
\* 16-bit integer (between -32768 and 32767).
C29_Original ==
    reply.op = "append" => reply.result.entry.status \in (0 - 32768)..32767

\* C30: for every record that ingest enqueues and every row it later persists,
\* the date field equals the calendar date of the datetime field taken in UTC,
\* whatever time zone offset the payload's date string carried.
C30_DateIsUtcDate ==
    reply.op = "append" =>
        LET content == reply.args
            entry == reply.result.entry
            row == reply.result.row
        IN  /\ entry.datetime.v = content.date.wall - content.date.utcoffset
            /\ entry.date = PyDate(DateOf(entry.datetime.v))
            /\ row[1] = PyInt(entry.datetime.v)
            /\ row[2] = PyInt(DateOf(row[1].v))

\* An entry of a payload whose own clock shows another day than the UTC clock.
C30_Witness ==
    /\ reply.op = "append"
    /\ reply.args.date.utcoffset # 0
    /\ DateOf(reply.args.date.wall) # reply.result.entry.date.v
    /\ reply.result.row[2].v = EpochOrdinal + 1

====
